---- MODULE Spec2Model ----
(***************************************************************************)
(* Model of src/main.py (MetaNetX Compound Search): the name normalizer,   *)
(* the expression tokenizer, the equation detector, the partial-match      *)
(* ranking of fetch_data and the "Search" button handler.                  *)
(*                                                                         *)
(* A Python str is a sequence of characters; a character is a one-element  *)
(* TLA+ string for ASCII and the code point's name ("U+2082") otherwise.   *)
(***************************************************************************)
EXTENDS Integers, Sequences, FiniteSets, TLC

----------------------------------------------------------------------------
(* Python built-ins used by the source *)

\* str.isspace() characters that occur in the modelled inputs
WhiteSpace == {" ", "\t", "\n", "\r"}

\* characters matched by \d in a str pattern (Unicode category Nd); the
\* subscript and superscript digits are category No and are not matched
Digits == {"0", "1", "2", "3", "4", "5", "6", "7", "8", "9"}

UpperCase == <<"A", "B", "C", "D", "E", "F", "G", "H", "I", "J", "K", "L", "M",
               "N", "O", "P", "Q", "R", "S", "T", "U", "V", "W", "X", "Y", "Z">>
LowerCase == <<"a", "b", "c", "d", "e", "f", "g", "h", "i", "j", "k", "l", "m",
               "n", "o", "p", "q", "r", "s", "t", "u", "v", "w", "x", "y", "z">>

\* str.lower() on one character
LowerOf == [c \in {UpperCase[k] : k \in 1..Len(UpperCase)} |->
               LowerCase[CHOOSE k \in 1..Len(UpperCase) : UpperCase[k] = c]]
lower_char(c) == IF c \in DOMAIN LowerOf THEN LowerOf[c] ELSE c

\* str.lower()
lower(s) == [k \in 1..Len(s) |-> lower_char(s[k])]

\* s[n:]
Drop(s, n) == SubSeq(s, n + 1, Len(s))

\* str.startswith
StartsWith(s, p) == Len(p) <= Len(s) /\ SubSeq(s, 1, Len(p)) = p

\* str.replace(old, new) for a non-empty old: leftmost, non-overlapping
RECURSIVE replace_from(_, _, _)
replace_from(s, old, new) ==
    IF Len(s) < Len(old) THEN s
    ELSE IF StartsWith(s, old) THEN new \o replace_from(Drop(s, Len(old)), old, new)
    ELSE <<Head(s)>> \o replace_from(Tail(s), old, new)

\* (one character by one character is the same replacement at every position)
replace(s, old, new) ==
    IF Len(old) = 1 /\ Len(new) = 1
    THEN [k \in 1..Len(s) |-> IF s[k] = old[1] THEN new[1] ELSE s[k]]
    ELSE replace_from(s, old, new)

\* `old in s`
Contains(s, old) == \E k \in 0..(Len(s) - Len(old)) : StartsWith(Drop(s, k), old)

RECURSIVE lstrip(_)
lstrip(s) == IF s # <<>> /\ Head(s) \in WhiteSpace THEN lstrip(Tail(s)) ELSE s

RECURSIVE rstrip(_)
rstrip(s) ==
    IF s # <<>> /\ s[Len(s)] \in WhiteSpace THEN rstrip(SubSeq(s, 1, Len(s) - 1)) ELSE s

\* str.strip()
strip(s) == rstrip(lstrip(s))

\* str.split(d) for a one-character d
RECURSIVE split(_, _)
split(s, d) ==
    IF \A k \in 1..Len(s) : s[k] # d THEN <<s>>
    ELSE LET k == CHOOSE k \in 1..Len(s) : s[k] = d /\ \A j \in 1..(k - 1) : s[j] # d
         IN  <<SubSeq(s, 1, k - 1)>> \o split(Drop(s, k), d)

\* for (old, new) in pairs: s = s.replace(old, new)
RECURSIVE replace_each(_, _)
replace_each(s, pairs) ==
    IF pairs = <<>> THEN s
    ELSE replace_each(replace(s, Head(pairs)[1], Head(pairs)[2]), Tail(pairs))

----------------------------------------------------------------------------
(* extract_compounds_from_expression *)

separators ==
    << <<"U+2192">>, <<"U+27F6">>, <<"-", ">">>, <<"U+21D2">>, <<"U+21C6">>,
       <<"U+21CC">>, <<"U+2194">>,
       <<"+">>, <<"U+FF0B">>,
       <<"U+27F7">>, <<"U+2194">>,
       <<"|">>, <<"/">>, <<"\\">>,
       <<",">>, <<";">>,
       <<"U+27E8">>, <<"U+27E9">>, <<"[">>, <<"]">>, <<"(">>, <<")">> >>

\* for sep in separators: cleaned_expression = cleaned_expression.replace(sep, '|')
cleaned_expression(expression) ==
    replace_each(expression, [k \in 1..Len(separators) |-> <<separators[k], <<"|">> >>])

RECURSIVE drop_digits(_)
drop_digits(s) == IF s # <<>> /\ Head(s) \in Digits THEN drop_digits(Tail(s)) ELSE s

\* re.sub(r'^\d+\s*', '', part)
sub_coefficient(part) ==
    IF part # <<>> /\ Head(part) \in Digits THEN lstrip(drop_digits(part)) ELSE part

\* re.sub(r'\s*(aq|s|l|g)\s*$', '', part): the match ends at the end of the
\* string, takes one of the four suffixes and every whitespace before it
sub_phase(part) ==
    LET body == rstrip(part)
        n    == Len(body)
    IN  IF n >= 2 /\ SubSeq(body, n - 1, n) = <<"a", "q">>
        THEN rstrip(SubSeq(body, 1, n - 2))
        ELSE IF n >= 1 /\ body[n] \in {"s", "l", "g"}
        THEN rstrip(SubSeq(body, 1, n - 1))
        ELSE part

\* the body of the loop over cleaned_expression.split('|'): the cleaned
\* part, or <<>> when the part is dropped
clean_part(raw) ==
    LET part == strip(raw)
    IN  IF part = <<>> THEN <<>>
        ELSE LET p == strip(sub_phase(sub_coefficient(part)))
             IN  IF Len(p) > 1 THEN p ELSE <<>>

RECURSIVE collect_parts(_)
collect_parts(parts) ==
    IF parts = <<>> THEN <<>>
    ELSE LET p == clean_part(Head(parts))
         IN  (IF p = <<>> THEN <<>> ELSE <<p>>) \o collect_parts(Tail(parts))

\* the key under which a compound is remembered in `seen`
seen_key(comp) == lower(comp)

RECURSIVE unique_compounds(_, _)
unique_compounds(compounds, seen) ==
    IF compounds = <<>> THEN <<>>
    ELSE IF seen_key(Head(compounds)) \notin seen
         THEN <<Head(compounds)>>
              \o unique_compounds(Tail(compounds), seen \cup {seen_key(Head(compounds))})
         ELSE unique_compounds(Tail(compounds), seen)

extract_compounds_from_expression(expression) ==
    unique_compounds(collect_parts(split(cleaned_expression(expression), "|")), {})

----------------------------------------------------------------------------
(* normalize_compound_name *)

subscript_map ==
    << <<"U+2080", "0">>, <<"U+2081", "1">>, <<"U+2082", "2">>, <<"U+2083", "3">>,
       <<"U+2084", "4">>, <<"U+2085", "5">>, <<"U+2086", "6">>, <<"U+2087", "7">>,
       <<"U+2088", "8">>, <<"U+2089", "9">> >>

superscript_map ==
    << <<"U+2070", "0">>, <<"U+00B9", "1">>, <<"U+00B2", "2">>, <<"U+00B3", "3">>,
       <<"U+2074", "4">>, <<"U+2075", "5">>, <<"U+2076", "6">>, <<"U+2077", "7">>,
       <<"U+2078", "8">>, <<"U+2079", "9">>, <<"U+207A", "+">>, <<"U+207B", "-">> >>

\* {**subscript_map, **superscript_map}.items() as (old, new) strings
script_pairs ==
    LET m == subscript_map \o superscript_map
    IN  [k \in 1..Len(m) |-> << <<m[k][1]>>, <<m[k][2]>> >>]

\* line 73: the en dash and the em dash
dash_pairs == << << <<"U+2013">>, <<"-">> >>, << <<"U+2014">>, <<"-">> >> >>

\* line 74 as Python reads it: both quote arguments are written with ASCII
\* apostrophes, so ''' opens a triple-quoted string that runs to the next '''
\* and the statement is one replace() of the text  , "'").replace(  by  '
quote_old == <<",", " ", "\"", "'", "\"", ")", ".", "r", "e", "p", "l", "a", "c", "e", "(">>
quote_pairs == << <<quote_old, <<"'">> >> >>

normalize_compound_name(name) ==
    IF name = <<>> THEN <<>>
    ELSE strip(replace_each(replace_each(replace_each(name, script_pairs),
                                         dash_pairs), quote_pairs))

----------------------------------------------------------------------------
(* is_likely_equation *)

equation_indicators ==
    << <<"U+2192">>, <<"U+27F6">>, <<"-", ">">>, <<"U+21D2">>, <<"U+21C6">>,
       <<"U+21CC">>, <<"U+2194">>, <<"+">>, <<"U+27F7">> >>

\* the detector with the '+' indicator left out
is_likely_equation_no_plus(text) ==
    \E k \in 1..Len(equation_indicators) :
        equation_indicators[k] # <<"+">> /\ Contains(text, equation_indicators[k])

is_likely_equation(text) ==
    \E k \in 1..Len(equation_indicators) : Contains(text, equation_indicators[k])

----------------------------------------------------------------------------
(* run_query and fetch_data; the SPARQL endpoint is the lookup provider *)

\* what sparql.query().convert() does: it returns bindings, or it raises
Returns(bindings) == [raises |-> FALSE, bindings |-> bindings]
Raises == [raises |-> TRUE, bindings |-> <<>>]

\* r.get("comment", {}).get("value", "")
comment_value(r) == IF "comment" \in DOMAIN r THEN r.comment ELSE <<>>

\* the text compared by the FILTER clause: escaped_name.lower()
query_key(compound_name) ==
    lower(replace(replace(normalize_compound_name(compound_name),
                          <<"\"">>, <<"\\", "\"">>), <<"'">>, <<"\\", "'">>))

the_query(compound_name, use_contains) ==
    [compound |-> compound_name, key |-> query_key(compound_name),
     use_contains |-> use_contains]

\* run_query without its try/except: the exception leaves the function
run_query_uncaught(compound_name, use_contains, response) ==
    [ queries  |-> <<the_query(compound_name, use_contains)>>,
      bindings |-> response.bindings,
      errors   |-> <<>>,
      raised   |-> response.raises ]

\* try: return bindings / except Exception: st.error(...); return []
run_query(compound_name, use_contains, response) ==
    [ queries  |-> <<the_query(compound_name, use_contains)>>,
      bindings |-> IF response.raises THEN <<>> ELSE response.bindings,
      errors   |-> IF response.raises
                   THEN << [kind |-> "error", compound |-> compound_name,
                            use_contains |-> use_contains] >>
                   ELSE <<>>,
      raised   |-> FALSE ]

\* a run_query that is not called
not_called == [queries |-> <<>>, bindings |-> <<>>, errors |-> <<>>, raised |-> FALSE]

\* rapidfuzz.fuzz.ratio: 100 * 2*LCS(a, b) / (len(a) + len(b)), kept as the
\* exact fraction num/den of 100 (100 for two empty strings)
RECURSIVE lcs(_, _)
lcs(a, b) ==
    IF a = <<>> \/ b = <<>> THEN 0
    ELSE IF Head(a) = Head(b) THEN 1 + lcs(Tail(a), Tail(b))
    ELSE LET u == lcs(Tail(a), b)
             v == lcs(a, Tail(b))
         IN  IF u >= v THEN u ELSE v

ratio(a, b) ==
    IF a = <<>> /\ b = <<>> THEN [num |-> 1, den |-> 1]
    ELSE [num |-> 2 * lcs(a, b), den |-> Len(a) + Len(b)]

sim_less(p, q) == p.num * q.den < q.num * p.den
sim_equal(p, q) == p.num * q.den = q.num * p.den

\* line 194 comparing the display name as the provider wrote it
is_partial_raw(r, normalized_input) == lower(comment_value(r)) # normalized_input

\* the comparison of line 194 that keeps a record among the partials
is_partial(r, normalized_input) ==
    lower(normalize_compound_name(comment_value(r))) # normalized_input

\* lines 192-195
RECURSIVE filter_partials(_, _)
filter_partials(partials, normalized_input) ==
    IF partials = <<>> THEN <<>>
    ELSE (IF is_partial(Head(partials), normalized_input) THEN <<Head(partials)>> ELSE <<>>)
         \o filter_partials(Tail(partials), normalized_input)

\* lines 196-200
score_partials(partials, normalized_input) ==
    [k \in 1..Len(partials) |->
        << ratio(lower(normalize_compound_name(comment_value(partials[k]))),
                 normalized_input),
           partials[k] >>]

\* a sort that is ascending and then reversed: equal keys end up reversed
RECURSIVE insert_reversed_ties(_, _)
insert_reversed_ties(sorted, item) ==
    IF sorted = <<>> THEN <<item>>
    ELSE IF ~sim_less(item[1], Head(sorted)[1]) THEN <<item>> \o sorted
    ELSE <<Head(sorted)>> \o insert_reversed_ties(Tail(sorted), item)

\* where list.sort(reverse=True, key=...) puts one more item: behind every
\* item whose key is not smaller (equal keys keep their order)
RECURSIVE insert_reverse(_, _)
insert_reverse(sorted, item) ==
    IF sorted = <<>> THEN <<item>>
    ELSE IF sim_less(Head(sorted)[1], item[1]) THEN <<item>> \o sorted
    ELSE <<Head(sorted)>> \o insert_reverse(Tail(sorted), item)

RECURSIVE sort_reverse_from(_, _)
sort_reverse_from(sorted, items) ==
    IF items = <<>> THEN sorted
    ELSE sort_reverse_from(insert_reverse(sorted, Head(items)), Tail(items))

\* scored_partials.sort(reverse=True, key=lambda x: x[0])
sort_reverse(items) == sort_reverse_from(<<>>, items)

\* scored_partials[:partial_limit + 1]
truncate_off_by_one(items, partial_limit) ==
    SubSeq(items, 1, IF Len(items) < partial_limit + 1 THEN Len(items) ELSE partial_limit + 1)

\* scored_partials[:partial_limit]
truncate(items, partial_limit) ==
    SubSeq(items, 1, IF Len(items) < partial_limit THEN Len(items) ELSE partial_limit)

\* fetch_data, given what the provider answers to the exact and to the
\* contains query; an exception leaving run_query ends the call
fetch_data(compound_name, mt, partial_limit, exact_response, contains_response) ==
    LET ex == IF mt \in {"Exact", "Both"}
              THEN run_query(compound_name, FALSE, exact_response)
              ELSE not_called
        pa == IF mt \in {"Partial", "Both"} /\ ~ex.raised
              THEN run_query(compound_name, TRUE, contains_response)
              ELSE not_called
        normalized_input == lower(normalize_compound_name(compound_name))
    IN  [ exact   |-> ex.bindings,
          partial |-> IF mt \in {"Partial", "Both"} /\ ~ex.raised /\ ~pa.raised
                      THEN truncate(sort_reverse(score_partials(
                               filter_partials(pa.bindings, normalized_input),
                               normalized_input)), partial_limit)
                      ELSE <<>>,
          queries |-> ex.queries \o pa.queries,
          errors  |-> ex.errors \o pa.errors,
          raised  |-> ex.raised \/ pa.raised ]

----------------------------------------------------------------------------
(* display_compound_results and the widgets *)

event(kind, compound, records) == [kind |-> kind, compound |-> compound, records |-> records]

\* what display_compound_results writes to the page for one compound
display_compound_results(results, compound, is_multi_search) ==
    (IF results.exact # <<>> THEN <<event("exact", compound, results.exact)>>
     ELSE IF is_multi_search THEN <<event("no_exact", compound, <<>>)>>
     ELSE <<>>)
    \o (IF results.partial # <<>> THEN <<event("partial", compound, results.partial)>>
        ELSE <<>>)

\* the options of the "Select match type" selectbox
MatchTypes == {"Exact", "Partial", "Both"}

\* the value of partial_limit when the number input is not shown
DefaultLimit == 5

\* the values of partial_limit for a match type (number_input, min_value=1)
MaxLimit == 3
Limits(mt) == IF mt \in {"Partial", "Both"} THEN 1..MaxLimit ELSE {DefaultLimit}

\* the smallest and the largest of them, for the runs of the Search button
HandlerLimits(mt) == IF mt \in {"Partial", "Both"} THEN {1, MaxLimit} ELSE {DefaultLimit}

\* if len(compound) > 1 that would also skip two-character names
loop_guard_too_strict(compound) == Len(compound) > 2

\* if len(compound) > 1:  # Skip very short strings
loop_guard(compound) == Len(compound) > 1

----------------------------------------------------------------------------
(* the inputs that are explored *)

\* every text made of at most n of the pieces
RECURSIVE Texts(_, _)
Texts(pieces, n) ==
    IF n = 0 THEN {<<>>}
    ELSE LET shorter == Texts(pieces, n - 1)
         IN  shorter \cup {t \o p : t \in shorter, p \in pieces}

MaxNamePieces == 3
NamePieces ==
    { <<",", " ", "\"">>, quote_old, <<"\"", ")", ".", "r", "e", "p", "l", "a", "c", "e", "(">>,
      <<"U+2082">>, <<"U+2019">>, <<"U+2013">>, <<" ">>, <<"H">> }
NameInputs == Texts(NamePieces, MaxNamePieces)

MaxExprPieces == 4
ExprPieces ==
    { <<"N", "a", "C", "l">>, <<"a", "q">>, <<"(">>, <<")">>, <<"H", "2", "O">>,
      <<"H", "U+2082", "O">>, <<"+">>, <<"H">>, <<" ">>, <<"2">> }
ExprInputs == Texts(ExprPieces, MaxExprPieces)

MaxInputPieces == 3
InputPieces == { <<"H", "2", "O">>, <<"H", "U+2082", "O">>, <<"N", "a">>, <<"+">>, <<" ">> }
HandlerInputs == Texts(InputPieces, MaxInputPieces)

\* records of the provider: a display name (comment) and an identifier (label)
record(comment, label) == [comment |-> comment, label |-> label]
Records ==
    { record(<<"H", "2", "O">>, "MNXM2"),
      record(<<"H", "U+2082", "O">>, "MNXM2a"),
      record(<<"H", "2", "O", "2">>, "MNXM22"),
      record(<<"a", "H", "2", "O">>, "MNXM9"),
      record(<<"D", "2", "O">>, "MNXM5") }

\* the sequences of at most n different records
RECURSIVE Listings(_)
Listings(n) ==
    IF n = 0 THEN {<<>>}
    ELSE LET shorter == Listings(n - 1)
         IN  shorter \cup UNION { {Append(l, r) :
                                      r \in {q \in Records : \A k \in 1..Len(l) : l[k] # q}} :
                                  l \in shorter }

MaxCandidates == 3
FetchNames == { <<"H", "2", "O">>, <<"h", "U+2082", "O", " ">> }
ExactResponses ==
    {Raises, Returns(<<>>), Returns(<<record(<<"H", "2", "O">>, "MNXM2")>>)}
RankResponses == {Raises} \cup {Returns(l) : l \in Listings(MaxCandidates)}
ContainsResponses ==
    {Raises, Returns(<<>>),
     Returns(<<record(<<"H", "2", "O", "2">>, "MNXM22"), record(<<"N", "a", "O", "H">>, "MNXM7")>>)}

----------------------------------------------------------------------------
(* state *)

VARIABLES
    pc,                \* where the run is
    name,              \* normalize_compound_name: the argument,
    normalized,        \*   the result,
    renormalized,      \*   the result of normalizing the result
    expression,        \* extract_compounds_from_expression: the argument,
    likely,            \*   is_likely_equation(expression),
    extracted,         \*   the list returned
    compound_name,     \* fetch_data: the argument,
    exact_response,    \*   what the provider did on the exact query,
    contains_response, \*   and on the contains query,
    results,           \*   the dict returned
    compound_input,    \* the text input
    match_type,        \* the selectbox
    partial_limit,     \* the number input
    compounds,         \* the list the handler loops over
    idx,               \* the position of the loop in compounds (from 1)
    answers,           \* what the provider did for each compound so far
    lookups,           \* the queries sent to the provider by this run
    display            \* what this run wrote to the page

nvars == <<name, normalized, renormalized>>
evars == <<expression, likely, extracted>>
fvars == <<compound_name, exact_response, contains_response, results>>
wvars == <<match_type, partial_limit>>
hvars == <<compound_input, compounds, idx, answers, lookups, display>>
vars == <<pc, nvars, evars, fvars, wvars, hvars>>

no_results == [exact |-> <<>>, partial |-> <<>>, queries |-> <<>>, errors |-> <<>>,
               raised |-> FALSE]

NInit == name = <<>> /\ normalized = <<>> /\ renormalized = <<>>
EInit == expression = <<>> /\ likely = FALSE /\ extracted = <<>>
FInit == /\ compound_name = <<>>
         /\ exact_response = Returns(<<>>)
         /\ contains_response = Returns(<<>>)
         /\ results = no_results
WInit == match_type = "Exact" /\ partial_limit = DefaultLimit
HInit == /\ compound_input = <<>>
         /\ compounds = <<>>
         /\ idx = 1
         /\ answers = <<>>
         /\ lookups = <<>>
         /\ display = <<>>

----------------------------------------------------------------------------
(* normalize_compound_name applied to a name, and to its own result *)

InitNormalize ==
    /\ pc = "input"
    /\ name \in NameInputs
    /\ normalized = <<>> /\ renormalized = <<>>
    /\ EInit /\ FInit /\ WInit /\ HInit

Normalize ==
    /\ pc = "input"
    /\ normalized' = normalize_compound_name(name)
    /\ pc' = "normalized"
    /\ UNCHANGED <<name, renormalized, evars, fvars, wvars, hvars>>

Renormalize ==
    /\ pc = "normalized"
    /\ renormalized' = normalize_compound_name(normalized)
    /\ pc' = "renormalized"
    /\ UNCHANGED <<name, normalized, evars, fvars, wvars, hvars>>

NextNormalize == Normalize \/ Renormalize
SpecNormalize == InitNormalize /\ [][NextNormalize]_vars

----------------------------------------------------------------------------
(* is_likely_equation and extract_compounds_from_expression applied to a text *)

InitExtract ==
    /\ pc = "input"
    /\ expression \in ExprInputs
    /\ likely = FALSE /\ extracted = <<>>
    /\ NInit /\ FInit /\ WInit /\ HInit

Detect ==
    /\ pc = "input"
    /\ likely' = is_likely_equation(expression)
    /\ pc' = "detected"
    /\ UNCHANGED <<expression, extracted, nvars, fvars, wvars, hvars>>

Extract ==
    /\ pc = "detected"
    /\ extracted' = extract_compounds_from_expression(expression)
    /\ pc' = "extracted"
    /\ UNCHANGED <<expression, likely, nvars, fvars, wvars, hvars>>

NextExtract == Detect \/ Extract
SpecExtract == InitExtract /\ [][NextExtract]_vars

----------------------------------------------------------------------------
(* one call of fetch_data *)

asked(mt, use_contains) ==
    IF use_contains THEN mt \in {"Partial", "Both"} ELSE mt \in {"Exact", "Both"}

InitFetch ==
    /\ pc = "call"
    /\ compound_name \in FetchNames
    /\ match_type \in MatchTypes
    /\ partial_limit \in Limits(match_type)
    /\ exact_response = Returns(<<>>)
    /\ contains_response = Returns(<<>>)
    /\ results = no_results
    /\ NInit /\ EInit /\ HInit

FetchData ==
    /\ pc = "call"
    /\ \E er \in ExactResponses, cr \in RankResponses :
          /\ asked(match_type, FALSE) \/ er = Returns(<<>>)
          /\ asked(match_type, TRUE) \/ cr = Returns(<<>>)
          /\ exact_response' = er
          /\ contains_response' = cr
          /\ results' = fetch_data(compound_name, match_type, partial_limit, er, cr)
    /\ pc' = "return"
    /\ UNCHANGED <<compound_name, nvars, evars, wvars, hvars>>

NextFetch == FetchData
SpecFetch == InitFetch /\ [][NextFetch]_vars

----------------------------------------------------------------------------
(* the Search button *)

Init ==
    /\ pc = "idle"
    /\ NInit /\ EInit /\ FInit /\ WInit /\ HInit

\* the widgets' values when the button is pressed
Press(text, mt, limit) ==
    /\ compound_input' = text
    /\ match_type' = mt
    /\ partial_limit' = limit

\* if not compound_input.strip(): st.warning(...)
SearchBlank ==
    /\ pc = "idle"
    /\ \E text \in HandlerInputs, mt \in MatchTypes :
          \E limit \in HandlerLimits(mt) :
             /\ Press(text, mt, limit)
             /\ strip(text) = <<>>
    /\ display' = <<event("warning_empty_input", <<>>, <<>>)>>
    /\ pc' = "done"
    /\ UNCHANGED <<compounds, idx, answers, lookups, nvars, evars, fvars>>

\* if is_likely_equation(compound_input): ... up to the loop over compounds
SearchExpression ==
    /\ pc = "idle"
    /\ \E text \in HandlerInputs, mt \in MatchTypes :
          \E limit \in HandlerLimits(mt) :
             /\ Press(text, mt, limit)
             /\ strip(text) # <<>>
             /\ is_likely_equation(text)
             /\ compounds' = extract_compounds_from_expression(text)
    /\ display' = <<event("info_detected", <<>>, <<>>)>>
                  \o (IF compounds' # <<>>
                      THEN <<event("extracted", <<>>, compounds')>>
                      ELSE <<event("warning_could_not_extract", <<>>, <<>>)>>)
    /\ pc' = IF compounds' # <<>> THEN "loop" ELSE "done"
    /\ UNCHANGED <<idx, answers, lookups, nvars, evars, fvars>>

\* one turn of: for compound in compounds
SearchCompound ==
    /\ pc = "loop"
    /\ idx <= Len(compounds)
    /\ LET compound == compounds[idx]
       IN  IF ~loop_guard(compound)
           THEN /\ pc' = IF idx = Len(compounds) THEN "done" ELSE "loop"
                /\ UNCHANGED <<answers, lookups, display>>
           ELSE \E er \in ExactResponses, cr \in ContainsResponses :
                   /\ asked(match_type, FALSE) \/ er = Returns(<<>>)
                   /\ asked(match_type, TRUE) \/ cr = Returns(<<>>)
                   /\ \E r \in {fetch_data(compound, match_type, partial_limit, er, cr)} :
                       /\ answers' = Append(answers, [compound |-> compound,
                                                      exact |-> er, contains |-> cr])
                       /\ lookups' = lookups \o r.queries
                       /\ IF r.raised
                          THEN /\ display' = display \o <<event("rule", compound, <<>>)>>
                                                     \o r.errors
                               /\ pc' = "crashed"
                          ELSE /\ display' = display \o <<event("rule", compound, <<>>)>>
                                                     \o r.errors
                                                     \o display_compound_results(r, compound, TRUE)
                               /\ pc' = IF idx = Len(compounds) THEN "done" ELSE "loop"
    /\ idx' = idx + 1
    /\ UNCHANGED <<compound_input, compounds, wvars, nvars, evars, fvars>>

\* else: the single compound search
SearchSingle ==
    /\ pc = "idle"
    /\ \E text \in HandlerInputs, mt \in MatchTypes :
          \E limit \in HandlerLimits(mt) :
             /\ Press(text, mt, limit)
             /\ strip(text) # <<>>
             /\ ~is_likely_equation(text)
             /\ \E er \in ExactResponses, cr \in ContainsResponses :
                   /\ asked(mt, FALSE) \/ er = Returns(<<>>)
                   /\ asked(mt, TRUE) \/ cr = Returns(<<>>)
                   /\ \E r \in {fetch_data(text, mt, limit, er, cr)} :
                       /\ answers' = <<[compound |-> text, exact |-> er, contains |-> cr]>>
                       /\ lookups' = r.queries
                       /\ IF r.raised
                          THEN /\ display' = r.errors
                               /\ pc' = "crashed"
                          ELSE /\ display' =
                                     r.errors
                                     \o display_compound_results(r, text, FALSE)
                                     \o (IF r.exact = <<>> /\ r.partial = <<>>
                                         THEN <<event("info_no_matches", text, <<>>)>>
                                         ELSE <<>>)
                               /\ pc' = "done"
    /\ UNCHANGED <<compounds, idx, nvars, evars, fvars>>

\* the next interaction runs the script again on an empty page
Rerun ==
    /\ pc = "done"
    /\ pc' = "idle"
    /\ match_type' = "Exact" /\ partial_limit' = DefaultLimit
    /\ compound_input' = <<>> /\ compounds' = <<>> /\ idx' = 1
    /\ answers' = <<>> /\ lookups' = <<>> /\ display' = <<>>
    /\ UNCHANGED <<nvars, evars, fvars>>

Next == SearchBlank \/ SearchExpression \/ SearchCompound \/ SearchSingle \/ Rerun
Spec == Init /\ [][Next]_vars

----------------------------------------------------------------------------
(* helpers of the properties *)

Letters == {UpperCase[k] : k \in 1..Len(UpperCase)} \cup {LowerCase[k] : k \in 1..Len(LowerCase)}
Chars(s) == {s[k] : k \in 1..Len(s)}
SeparatorChars == {separators[k][1] : k \in {j \in 1..Len(separators) : Len(separators[j]) = 1}}
Typographic == {"U+2013", "U+2014", "U+2018", "U+2019"}

\* the form under which two names are the same compound
Canonical(s) == lower(normalize_compound_name(s))

\* a text with none of the separators of the tokenizer but, possibly, '+'
OnlyPlusSeparates(s) ==
    /\ Chars(s) \cap (SeparatorChars \ {"+"}) = {}
    /\ ~Contains(s, <<"-", ">">>)

\* one word of letters and digits that no step of the tokenizer should touch:
\* two characters or more, no coefficient in front, and not itself one of
\* the phase indicators
PlainWord(s) ==
    /\ Len(s) > 1
    /\ Chars(s) \subseteq Letters \cup Digits
    /\ s[1] \notin Digits
    /\ s \notin {<<"a", "q">>}

\* a word that does not end in the letters of a phase indicator
NoPhaseEnding(s) ==
    /\ s[Len(s)] \notin {"s", "l", "g"}
    /\ ~(Len(s) >= 2 /\ SubSeq(s, Len(s) - 1, Len(s)) = <<"a", "q">>)

Body(s) == SubSeq(s, 1, Len(s) - 1)

\* an ion: a word of letters and digits that starts with a letter, then '+'
IonLike(s) ==
    /\ Len(s) >= 2
    /\ s[Len(s)] = "+"
    /\ Chars(Body(s)) \subseteq Letters \cup Digits
    /\ s[1] \in Letters

\* the candidates of the contains query as fetch_data sees them
Candidates == IF contains_response.raises THEN <<>> ELSE contains_response.bindings
CandidateName(k) == Canonical(comment_value(Candidates[k]))
Eligible == {k \in 1..Len(Candidates) : CandidateName(k) # Canonical(compound_name)}
Position(r) == CHOOSE k \in 1..Len(Candidates) : Candidates[k] = r
Ranked == results.partial

\* the handler is on the expression branch
OnExpressionBranch ==
    /\ pc \in {"loop", "done", "crashed"}
    /\ strip(compound_input) # <<>>
    /\ is_likely_equation(compound_input)

EventsOf(kinds) == SelectSeq(display, LAMBDA e : e.kind \in kinds)
CompoundsOf(events) == [k \in 1..Len(events) |-> events[k].compound]
RECURSIVE Doubled(_)
Doubled(s) == IF s = <<>> THEN <<>> ELSE <<Head(s), Head(s)>> \o Doubled(Tail(s))
IsPrefix(s, t) == Len(s) <= Len(t) /\ SubSeq(t, 1, Len(s)) = s

----------------------------------------------------------------------------
(* properties *)

\* C1: the list returned by extract_compounds_from_expression holds no two
\* tokens with the same normalized, lower-cased form.
C1_DedupOnNormalizedForm ==
    pc = "extracted" =>
        \A i, j \in 1..Len(extracted) :
            i < j => Canonical(extracted[i]) # Canonical(extracted[j])

\* C2: phase stripping removes aq, s, l, g only as a whole trailing word: a
\* text that is one plain word is returned as it is, and "NaCl(aq)" gives
\* exactly ["NaCl"].
C2_PhaseOnlyAsWholeWord ==
    pc = "extracted" =>
        /\ PlainWord(expression) => extracted = <<expression>>
        /\ expression = <<"N", "a", "C", "l", "(", "a", "q", ")">>
              => extracted = << <<"N", "a", "C", "l">> >>

\* C3: normalize_compound_name returns a string for every string, and
\* normalizing its result again returns the same string.
C3_TotalAndIdempotent ==
    /\ pc \in {"normalized", "renormalized"} => DOMAIN normalized = 1..Len(normalized)
    /\ pc = "renormalized" => renormalized = normalized

\* C4: the result of normalize_compound_name holds no en dash, no em dash
\* and no curly single quote.
C4_NoTypographicCharacter ==
    pc \in {"normalized", "renormalized"} => Chars(normalized) \cap Typographic = {}

\* C5: the ranked partial list never holds a candidate whose normalized,
\* lower-cased name equals the normalized, lower-cased query, and a candidate
\* whose name differs is left out only by the limit.
C5_ExactMatchesExcluded ==
    pc = "return" =>
        /\ \A k \in 1..Len(Ranked) :
              Canonical(comment_value(Ranked[k][2])) # Canonical(compound_name)
        /\ asked(match_type, TRUE) =>
              \A k \in Eligible :
                  \/ Len(Ranked) = partial_limit
                  \/ \E i \in 1..Len(Ranked) : Ranked[i][2] = Candidates[k]

C5_Witness ==
    /\ pc = "return"
    /\ Ranked # <<>>
    /\ \E k \in 1..Len(Candidates) :
          /\ k \notin Eligible
          /\ comment_value(Candidates[k]) # compound_name

\* C6: the ranked partial list is in order of non-increasing score, and two
\* candidates with equal scores are in the order the provider gave them.
C6_StableDescending ==
    pc = "return" =>
        \A i, j \in 1..Len(Ranked) :
            i < j =>
                /\ ~sim_less(Ranked[i][1], Ranked[j][1])
                /\ sim_equal(Ranked[i][1], Ranked[j][1])
                      => Position(Ranked[i][2]) < Position(Ranked[j][2])

C6_Witness ==
    /\ pc = "return"
    /\ \E i, j \in 1..Len(Ranked) :
          /\ i < j
          /\ sim_equal(Ranked[i][1], Ranked[j][1])
          /\ comment_value(Ranked[i][2]) # comment_value(Ranked[j][2])
    /\ \E i, j \in 1..Len(Ranked) :
          /\ sim_less(Ranked[j][1], Ranked[i][1])
          /\ Position(Ranked[j][2]) < Position(Ranked[i][2])

\* C7: the ranked partial list has min(limit, number of eligible candidates)
\* entries, and they are the first of the sorted list: no eligible candidate
\* left out scores higher than one that is kept.
C7_Truncation ==
    (pc = "return" /\ asked(match_type, TRUE)) =>
        /\ Len(Ranked) = IF partial_limit < Cardinality(Eligible)
                         THEN partial_limit ELSE Cardinality(Eligible)
        /\ \A k \in Eligible :
              (\A i \in 1..Len(Ranked) : Ranked[i][2] # Candidates[k])
                  => \A i \in 1..Len(Ranked) :
                         ~sim_less(Ranked[i][1],
                                   ratio(CandidateName(k), Canonical(compound_name)))

C7_Witness ==
    /\ pc = "return"
    /\ asked(match_type, TRUE)
    /\ Cardinality(Eligible) > partial_limit
    /\ Len(Ranked) = partial_limit

\* C8: a lookup that raises is caught: the run never ends by the exception,
\* an error is shown for that compound and its record list is empty, while
\* every compound reached so far has been looked up and displayed, and what
\* is on the page and what was sent is only added to while the loop runs.
C8_Contained ==
    /\ pc # "crashed"
    /\ \A k \in 1..Len(answers) :
          LET c == answers[k].compound
              raised == (IF answers[k].exact.raises THEN 1 ELSE 0)
                        + (IF answers[k].contains.raises THEN 1 ELSE 0)
          IN  /\ Cardinality({i \in 1..Len(display) :
                                 display[i].kind = "error" /\ display[i].compound = c}) = raised
              /\ answers[k].exact.raises =>
                    \A i \in 1..Len(display) :
                        ~(display[i].kind = "exact" /\ display[i].compound = c)
              /\ answers[k].contains.raises =>
                    \A i \in 1..Len(display) :
                        ~(display[i].kind = "partial" /\ display[i].compound = c)
              /\ ~answers[k].exact.raises =>
                    \A i \in 1..Len(display) :
                        (display[i].kind = "exact" /\ display[i].compound = c)
                            => display[i].records = answers[k].exact.bindings
    /\ OnExpressionBranch =>
          /\ CompoundsOf(answers) = SubSeq(compounds, 1, idx - 1)
          /\ CompoundsOf(EventsOf({"exact", "no_exact"})) = SubSeq(compounds, 1, idx - 1)
          /\ pc = "done" => idx = Len(compounds) + 1

C8_OnlyAddedTo ==
    pc = "loop" => IsPrefix(display, display') /\ IsPrefix(lookups, lookups')

\* C8: both parts: in every state a raising lookup is contained, and in
\* every step of the loop the earlier results and queries stay as they are.
C8_ProviderFailureContained == [] C8_Contained /\ [][C8_OnlyAddedTo]_vars

C8_Witness ==
    /\ pc = "done"
    /\ Len(answers) = 2
    /\ answers[1].exact.raises /\ answers[1].contains.raises
    /\ ~answers[2].exact.raises /\ answers[2].exact.bindings # <<>>
    /\ \E i \in 1..Len(display) :
          display[i].kind = "exact" /\ display[i].compound = compounds[2]

\* C9: on the expression branch the compounds looked up and displayed are
\* the list extract_compounds_from_expression returns, one after the other
\* in that order; for an empty list nothing is looked up and "could not
\* extract" is reported.
C9_OneBundlePerToken ==
    OnExpressionBranch =>
        /\ compounds = extract_compounds_from_expression(compound_input)
        /\ idx \in 1..(Len(compounds) + 1)
        /\ pc = "done" => idx = Len(compounds) + 1 \/ compounds = <<>>
        /\ CompoundsOf(answers) = SubSeq(compounds, 1, Len(answers))
        /\ compounds # <<>> => Len(answers) = idx - 1
        /\ CompoundsOf(EventsOf({"exact", "no_exact"})) = CompoundsOf(answers)
        /\ CompoundsOf(lookups) = IF match_type = "Both"
                                  THEN Doubled(CompoundsOf(answers))
                                  ELSE CompoundsOf(answers)
        /\ compounds = <<>> =>
              /\ pc = "done"
              /\ lookups = <<>>
              /\ answers = <<>>
              /\ EventsOf({"warning_could_not_extract"}) # <<>>
        /\ compounds # <<>> => EventsOf({"warning_could_not_extract"}) = <<>>

C9_Witness ==
    /\ OnExpressionBranch
    /\ pc = "done"
    /\ Len(compounds) = 2
    /\ Len(compounds[2]) = 2
    /\ match_type = "Both"
    /\ Len(lookups) = 4

\* C10 as stated: an ion (a word, then '+') is classified as an expression
\* and extract_compounds_from_expression returns exactly one token for it.
C10_IonGivesOneToken ==
    (pc = "extracted" /\ IonLike(expression)) => likely /\ Len(extracted) = 1

\* C10 as amended: a name with a '+' and no other separator is classified
\* as an expression and no token returned for it holds a '+'; the list is
\* exactly the name without its '+' when the name is a plain word that does
\* not end in s, l, g or aq, followed by one '+'.
C10_IonClassifiedAndSplit ==
    (pc = "extracted" /\ "+" \in Chars(expression) /\ OnlyPlusSeparates(expression)) =>
        /\ likely
        /\ \A k \in 1..Len(extracted) : "+" \notin Chars(extracted[k])
        /\ (IonLike(expression) /\ PlainWord(Body(expression))
                /\ NoPhaseEnding(Body(expression)))
              => extracted = <<Body(expression)>>

C10_Witness ==
    /\ pc = "extracted"
    /\ IonLike(expression) /\ PlainWord(Body(expression)) /\ NoPhaseEnding(Body(expression))
    /\ likely
    /\ extracted = <<Body(expression)>>

====
